---- MODULE Spec2Model ----
(***************************************************************************)
(* A model of the SevSeg seven-segment display driver (src/SevSeg.cpp).   *)
(*                                                                         *)
(* The driver object's fields are the variables.  Logic levels are 0 (LOW) *)
(* and 1 (HIGH).  Arrays are functions over 0-based indices, as in the     *)
(* source.  The class declaration (SevSeg.h) is not among the sources: the *)
(* array capacities, the type of the refresh cursor 'common' (a byte) and  *)
(* the build switch RESISTORS are taken from the way SevSeg.cpp uses them. *)
(***************************************************************************)
EXTENDS Integers, Sequences, FiniteSets, TLC

VARIABLES
    resistors,     \* build switch RESISTORS: "ON_DIGITS" or "ON_SEGMENTS"
    numDigits,     \* SevSeg::numDigits
    digitOn,       \* SevSeg::digitOn
    digitOff,      \* SevSeg::digitOff
    segmentOn,     \* SevSeg::segmentOn
    segmentOff,    \* SevSeg::segmentOff
    digitCodes,    \* SevSeg::digitCodes, one byte per digit position; the slots from
                   \* numDigits on are kept at 0 and read as any byte
    common,        \* SevSeg::common, the refresh cursor of updateDisplay
    ledOnTime,     \* SevSeg::ledOnTime
    limitsInit,    \* whether the function-local statics of findDigits are initialised
    maxNum,        \* static const long maxNum of findDigits
    minNum,        \* static const long minNum of findDigits
    digitLine,     \* level of the pin wired to digit line i (digitPins[i])
    segmentLine,   \* level of the pin wired to segment line s (segmentPins[s])
    pc,            \* position of the main program inside refreshDisplay
    step,          \* loop variable 'step' of refreshDisplay
    last,          \* the call that returned last, with its arguments
    call           \* the setNumber or setSegments call the main program is inside,
                   \* with the locals of its loop over the digits

vars == <<resistors, numDigits, digitOn, digitOff, segmentOn, segmentOff,
          digitCodes, common, ledOnTime, limitsInit, maxNum, minNum,
          digitLine, segmentLine, pc, step, last, call>>

(***************************************************************************)
(* Bounds of the model and constants of the program.                       *)
(***************************************************************************)
\* Compile-time maximum number of digits (S7_DIGITS of SevSeg.h); the model
\* explores it at a small value.
S7_DIGITS == 3

\* Number of segment lines, 7 segments and the decimal point.
S7_SEGMENTS == 8

\* Glyph sentinels.
BLANK == 10

DASH == 11

\* setNumber is explored on every value of magnitude up to MaxSmall and on
\* the values at each power of ten up to 10^(S7_DIGITS+1).
MaxSmall == 5

\* A cursor out of range counts up to 255 before it wraps.  updateDisplay is
\* explored from the cursors that index inside the tables and from MaxBeyond
\* cursors past them, and from the cursor 255, which wraps at once.
MaxBeyond == 1

\* Largest brightness percentage explored.
MaxPercent == 160

LOW == 0

HIGH == 1

Bytes == 0..255

Levels == {LOW, HIGH}

\* What a read past the end of a table or of an unwritten slot may return.
GarbageBytes == {0, 64, 134, 255}

Min(a, b) == IF a < b THEN a ELSE b

Abs(a) == IF a < 0 THEN -a ELSE a

\* Bit s of a byte.
Bit(code, s) == (code \div (2 ^ s)) % 2

(***************************************************************************)
(* The Digit Encoder: findDigits and setDigitCodes.                        *)
(***************************************************************************)
powersOf10 == <<1, 10, 100, 1000, 10000, 100000, 1000000, 10000000,
                100000000, 1000000000>>

PowerOf10(i) == powersOf10[i + 1]

digitCodeMap == <<63, 6, 91, 79, 102, 109, 125, 7, 127, 111, 0, 64>>

\* The extraction loop of findDigits from position k on: the quotient is
\* stored into a byte, and the stored byte is what is subtracted.
RECURSIVE ExtractDigits(_, _, _)
ExtractDigits(num, k, n) ==
    IF k >= n THEN <<>>
    ELSE LET factor == PowerOf10(n - 1 - k)
             d == (num \div factor) % 256
         IN  <<d>> \o ExtractDigits(num - d * factor, k + 1, n)

\* The leading-zero loop of findDigits from position k on (0-based), with
\* 'limit' = numDigits - 1 - decPlaces.
RECURSIVE BlankLeading(_, _, _)
BlankLeading(digits, k, limit) ==
    IF k >= limit THEN digits
    ELSE IF digits[k + 1] = 0
         THEN BlankLeading([digits EXCEPT ![k + 1] = BLANK], k + 1, limit)
         ELSE IF digits[k + 1] <= 9 THEN digits
              ELSE BlankLeading(digits, k + 1, limit)

\* findDigits: the glyphs of the n positions, a sequence indexed from 1.
\* hi and lo are the values of the statics maxNum and minNum.
findDigits(numToShow, decPlaces, n, hi, lo) ==
    IF numToShow > hi \/ numToShow < lo
    THEN [i \in 1..n |-> DASH]
    ELSE LET raw == IF numToShow < 0
                    THEN <<DASH>> \o ExtractDigits(-numToShow, 1, n)
                    ELSE ExtractDigits(numToShow, 0, n)
         IN  BlankLeading(raw, 0, n - 1 - decPlaces)

\* digitCodeMap[glyph]; a glyph past the table reads the byte g behind it.
CodeOf(glyph, g) == IF glyph <= DASH THEN digitCodeMap[glyph + 1] ELSE g

\* Bitwise 'code | B10000000'.
WithPoint(code) == IF Bit(code, 7) = 1 THEN code ELSE code + 128

\* setDigitCodes: the new content of digitCodes.
setDigitCodes(codes, digits, decPlaces, n, g) ==
    [i \in DOMAIN codes |->
        IF i < n
        THEN IF i = n - 1 - decPlaces
             THEN WithPoint(CodeOf(digits[i + 1], g))
             ELSE CodeOf(digits[i + 1], g)
        ELSE codes[i]]

\* The values the statics of findDigits take on the call that initialises them.
LimitsFor(n) == [hi |-> PowerOf10(n) - 1, lo |-> -(PowerOf10(n - 1) - 1)]

\* setNewNum: every content digitCodes may have afterwards, for a driver of
\* n digits whose findDigits statics are hi and lo.
setNewNum(codes, numToShow, decPlaces, n, hi, lo) ==
    LET digits == findDigits(numToShow, decPlaces, n, hi, lo)
    IN  IF \E i \in 1..n : digits[i] > DASH
        THEN {setDigitCodes(codes, digits, decPlaces, n, g) : g \in GarbageBytes}
        ELSE {setDigitCodes(codes, digits, decPlaces, n, 0)}

(***************************************************************************)
(* The pins.  A record [d |-> digit line levels, s |-> segment line        *)
(* levels] is the state of the display's lines.  Line i is the pin the     *)
(* caller named at index i of the pin list given to begin.                 *)
(***************************************************************************)
DigitIdx == 0..(S7_DIGITS - 1)

SegmentIdx == 0..(S7_SEGMENTS - 1)

Pins == [d |-> digitLine, s |-> segmentLine]

\* digitalWrite on a pin number read from a slot the last begin did not
\* write (stale, unwritten or past the table): the pin may be any line of
\* the display, or a pin not wired to it.
GarbagePinWrite(p, level) ==
    {p} \cup {[p EXCEPT !.d[j] = level] : j \in DigitIdx}
        \cup {[p EXCEPT !.s[j] = level] : j \in SegmentIdx}

\* digitalWrite(digitPins[i], level)
WriteDigitPin(p, i, level) ==
    IF i < numDigits THEN {[p EXCEPT !.d[i] = level]} ELSE GarbagePinWrite(p, level)

\* digitalWrite(segmentPins[i], level)
WriteSegmentPin(p, i, level) ==
    IF i < S7_SEGMENTS THEN {[p EXCEPT !.s[i] = level]} ELSE GarbagePinWrite(p, level)

\* digitCodes[i] as a read sees it.
ReadCode(i) == IF i < numDigits THEN {digitCodes[i]} ELSE GarbageBytes

\* const byte bitmask = 1 << segment, with a 16-bit int.
Bitmask(segment) ==
    IF segment < 8 THEN {2 ^ segment}
    ELSE IF segment < 16 THEN {0} ELSE GarbageBytes

\* a & b # 0 for bytes a, b
AndNonZero(a, b) == \E k \in 0..7 : Bit(a, k) = 1 /\ Bit(b, k) = 1

\* Number of steps of a refresh cycle.
REFRESH_STEPS == IF resistors = "ON_DIGITS" THEN S7_SEGMENTS ELSE numDigits

\* lightsOn, resistors on digits: the digits showing the segment, then the
\* segment line.
lightsOnDigits(p, segment) ==
    UNION {WriteSegmentPin(
               [p EXCEPT !.d = [i \in DigitIdx |->
                    IF i < numDigits /\ AndNonZero(digitCodes[i], bitmask)
                    THEN digitOn ELSE p.d[i]]],
               segment, segmentOn) : bitmask \in Bitmask(segment)}

\* lightsOff, resistors on digits: the segment line, then every digit line.
lightsOffDigits(p, segment) ==
    {[q EXCEPT !.d = [i \in DigitIdx |-> IF i < numDigits THEN digitOff ELSE q.d[i]]] :
        q \in WriteSegmentPin(p, segment, segmentOff)}

\* lightsOn, resistors on segments: the segments of the digit's code, then
\* the digit line.
lightsOnSegments(p, digit) ==
    UNION {WriteDigitPin(
               [p EXCEPT !.s = [k \in SegmentIdx |->
                    IF Bit(code, k) = 1 THEN segmentOn ELSE p.s[k]]],
               digit, digitOn) : code \in ReadCode(digit)}

\* lightsOff, resistors on segments, without its loop over the segments.
lightsOffSegmentsDigitOnly(p, digit) == WriteDigitPin(p, digit, digitOff)

\* lightsOff, resistors on segments: the digit line, then every segment line.
lightsOffSegments(p, digit) ==
    {[q EXCEPT !.s = [k \in SegmentIdx |-> segmentOff]] :
        q \in WriteDigitPin(p, digit, digitOff)}

\* A lightsOn that writes no pin.
lightsOnNothing(p, unit) == {p}

lightsOn(p, unit) ==
    IF resistors = "ON_DIGITS" THEN lightsOnDigits(p, unit) ELSE lightsOnSegments(p, unit)

\* A lightsOff that writes no pin.
lightsOffNothing(p, unit) == {p}

lightsOff(p, unit) ==
    IF resistors = "ON_DIGITS" THEN lightsOffDigits(p, unit) ELSE lightsOffSegments(p, unit)

(***************************************************************************)
(* The operations.                                                         *)
(***************************************************************************)
Called(op, a, b) == [op |-> op, a |-> a, b |-> b]

\* The locals of a call that writes digitCodes digit by digit: the byte to
\* store at each position (codes), the position that then gets the decimal
\* point or-ed in (point, -1 for none), the loop index (i), and whether the
\* byte of position i is stored and its point still to be or-ed in (half).
\* op, v and dp are the method and its arguments.
Locals(op, v, dp, codes, point) ==
    [op |-> op, v |-> v, dp |-> dp, codes |-> codes, point |-> point,
     i |-> 0, half |-> FALSE]

\* The main program is inside no such call.
NoCall == Locals("none", 0, 0, [i \in 0..(S7_DIGITS - 1) |-> 0], -1)

\* The driver has been initialised by begin, and the main program is not
\* inside a call.
Ready == numDigits > 0 /\ pc = "idle"

\* SevSeg::SevSeg leaves every field but ledOnTime and numDigits unwritten.
\* The fields begin writes before anything reads them start at a fixed
\* value; the cursor, which nothing ever assigns, starts at any byte.  The
\* pins start LOW.
Constructed ==
    /\ numDigits = 0
    /\ ledOnTime = 2000
    /\ digitOn = LOW /\ digitOff = LOW /\ segmentOn = LOW /\ segmentOff = LOW
    /\ digitCodes = [i \in DigitIdx |-> 0]
    /\ limitsInit = FALSE /\ maxNum = 0 /\ minNum = 0
    /\ digitLine = [i \in DigitIdx |-> LOW]
    /\ segmentLine = [k \in SegmentIdx |-> LOW]
    /\ pc = "idle" /\ step = 0
    /\ last = Called("SevSeg", 0, 0)
    /\ call = NoCall

\* begin with the digit levels of the two common-pin cases exchanged.
DigitOnExchanged(hardwareConfig) == IF hardwareConfig \in {0, 2} THEN HIGH ELSE LOW

\* The digit level a hardware configuration switches a digit on with.
DigitOnOf(hardwareConfig) == IF hardwareConfig \in {1, 2} THEN HIGH ELSE LOW

\* The segment level a hardware configuration switches a segment on with.
SegmentOnOf(hardwareConfig) == IF hardwareConfig \in {0, 2} THEN HIGH ELSE LOW

\* The digit count begin keeps.
ClampDigits(numDigitsIn) == IF numDigitsIn > S7_DIGITS THEN S7_DIGITS ELSE numDigitsIn

\* begin(hardwareConfig, numDigitsIn, digitPinsIn, segmentPinsIn)
Begin(hardwareConfig, numDigitsIn) ==
    /\ pc = "idle"
    /\ LET n == ClampDigits(numDigitsIn)
           lim == IF limitsInit THEN [hi |-> maxNum, lo |-> minNum] ELSE LimitsFor(n)
       IN  /\ numDigits' = n
           /\ digitOn' = DigitOnOf(hardwareConfig)
           /\ segmentOn' = SegmentOnOf(hardwareConfig)
           /\ digitOff' = 1 - digitOn'
           /\ segmentOff' = 1 - segmentOn'
           /\ digitLine' = [i \in DigitIdx |-> IF i < n THEN digitOff' ELSE digitLine[i]]
           /\ segmentLine' = [k \in SegmentIdx |-> segmentOff']
           /\ limitsInit' = TRUE
           /\ maxNum' = lim.hi
           /\ minNum' = lim.lo
           /\ digitCodes' \in setNewNum([i \in DigitIdx |-> 0], 0, 0, n, lim.hi, lim.lo)
    /\ last' = Called("begin", hardwareConfig, numDigitsIn)
    /\ UNCHANGED <<call, resistors, common, ledOnTime, pc, step>>

\* setNumber(long numToShow, byte decPlaces)
SetNumber(numToShow, decPlaces) ==
    /\ Ready
    /\ last' = Called("setNumber", numToShow, decPlaces)
    /\ digitCodes' \in setNewNum(digitCodes, numToShow, decPlaces, numDigits, maxNum, minNum)
    /\ UNCHANGED <<call, resistors, numDigits, digitOn, digitOff, segmentOn, segmentOff,
                   common, ledOnTime, limitsInit, maxNum, minNum,
                   digitLine, segmentLine, pc, step>>

(***************************************************************************)
(* The encoder on its own: begin and setNumber over a wide set of values.  *)
(***************************************************************************)
HardwareConfigs == 0..3

DigitCounts == 1..(S7_DIGITS + 1)

DecPlaces == 0..(S7_DIGITS - 1)

EncValues ==
    (-MaxSmall..MaxSmall)
    \cup UNION {{PowerOf10(k) - 1, PowerOf10(k), -(PowerOf10(k) - 1), -PowerOf10(k)}
                : k \in 1..(S7_DIGITS + 1)}

\* The encoder reads neither the build switch nor the cursor.
InitEnc == Constructed /\ resistors = "ON_DIGITS" /\ common = 0

NextEnc ==
    \/ \E hw \in HardwareConfigs, d \in DigitCounts : Begin(hw, d)
    \/ \E v \in EncValues, dp \in DecPlaces : SetNumber(v, dp)

SpecEnc == InitEnc /\ [][NextEnc]_vars

(***************************************************************************)
(* The refresh engine and the remaining operations.                        *)
(***************************************************************************)
\* A setSegments that sets the decimal point of the last digit.
SetSegmentsWithPoint(segs) ==
    /\ Ready
    /\ digitCodes' = [i \in DigitIdx |->
                          IF i < numDigits
                          THEN (IF i = numDigits - 1 THEN WithPoint(segs[i]) ELSE segs[i])
                          ELSE digitCodes[i]]
    /\ last' = Called("setSegments", 0, 0)
    /\ UNCHANGED <<call, resistors, numDigits, digitOn, digitOff, segmentOn, segmentOff,
                   common, ledOnTime, limitsInit, maxNum, minNum,
                   digitLine, segmentLine, pc, step>>

\* setSegments(byte segs[])
SetSegments(segs) ==
    /\ Ready
    /\ last' = Called("setSegments", 0, 0)
    /\ digitCodes' = [i \in DigitIdx |-> IF i < numDigits THEN segs[i] ELSE digitCodes[i]]
    /\ UNCHANGED <<call, resistors, numDigits, digitOn, digitOff, segmentOn, segmentOff,
                   common, ledOnTime, limitsInit, maxNum, minNum,
                   digitLine, segmentLine, pc, step>>

\* setSegmentsPGM(const byte *segs)
SetSegmentsPGM(segs) ==
    /\ Ready
    /\ last' = Called("setSegmentsPGM", 0, 0)
    /\ digitCodes' = [i \in DigitIdx |-> IF i < numDigits THEN segs[i] ELSE digitCodes[i]]
    /\ UNCHANGED <<call, resistors, numDigits, digitOn, digitOff, segmentOn, segmentOff,
                   common, ledOnTime, limitsInit, maxNum, minNum,
                   digitLine, segmentLine, pc, step>>

\* ++common, then the comparison with REFRESH_STEPS, on a byte.
NextCommon(c) == IF (c + 1) % 256 = REFRESH_STEPS THEN 0 ELSE (c + 1) % 256

\* The body of updateDisplay: every (pins, cursor) it may leave.
updateDisplay(p, c) ==
    UNION {{[pins |-> q2, common |-> NextCommon(c)] : q2 \in lightsOn(q1, NextCommon(c))}
           : q1 \in lightsOff(p, c)}

\* The size of the table the cursor indexes: segmentPins under resistors on
\* digits, digitPins and digitCodes under resistors on segments.
TableSize == IF resistors = "ON_DIGITS" THEN S7_SEGMENTS ELSE S7_DIGITS

ExploredCursors == (0..(TableSize + MaxBeyond - 1)) \cup {255}

\* updateDisplay(), called by the main program
UpdateDisplay ==
    /\ Ready
    /\ common \in ExploredCursors
    /\ last' = Called("updateDisplay", 0, 0)
    /\ \E r \in updateDisplay(Pins, common) :
          /\ digitLine' = r.pins.d
          /\ segmentLine' = r.pins.s
          /\ common' = r.common
    /\ UNCHANGED <<call, resistors, numDigits, digitOn, digitOff, segmentOn, segmentOff,
                   digitCodes, ledOnTime, limitsInit, maxNum, minNum, pc, step>>

\* clearDisplay without its second loop.
clearDisplayDigitsOnly(p) ==
    [d |-> [i \in DigitIdx |-> IF i < numDigits THEN digitOff ELSE p.d[i]],
     s |-> p.s]

\* The lines as clearDisplay leaves them.
clearDisplay(p) ==
    [d |-> [i \in DigitIdx |-> IF i < numDigits THEN digitOff ELSE p.d[i]],
     s |-> [k \in SegmentIdx |-> segmentOff]]

\* clearDisplay()
ClearDisplay ==
    /\ Ready
    /\ digitLine' = clearDisplay(Pins).d
    /\ segmentLine' = clearDisplay(Pins).s
    /\ last' = Called("clearDisplay", 0, 0)
    /\ UNCHANGED <<call, resistors, numDigits, digitOn, digitOff, segmentOn, segmentOff,
                   digitCodes, common, ledOnTime, limitsInit, maxNum, minNum, pc, step>>

\* constrain(x, lo, hi) of the Arduino core
Constrain(x, lo, hi) == IF x < lo THEN lo ELSE IF x > hi THEN hi ELSE x

\* map(x, in_min, in_max, out_min, out_max) of the Arduino core, on longs;
\* the dividend is never negative here, so the division truncates as in C.
Map(x, inMin, inMax, outMin, outMax) ==
    ((x - inMin) * (outMax - outMin)) \div (inMax - inMin) + outMin

\* setBrightness without the call of constrain.
OnTimeUnconstrained(brightness) == Map(brightness, 0, 100, 1, 2000)

\* The on-time setBrightness computes.
OnTimeOf(brightness) == Map(Constrain(brightness, 0, 100), 0, 100, 1, 2000)

\* setBrightness(int brightness)
SetBrightness(brightness) ==
    /\ pc = "idle"
    /\ ledOnTime' = OnTimeOf(brightness)
    /\ last' = Called("setBrightness", brightness, 0)
    /\ UNCHANGED <<call, resistors, numDigits, digitOn, digitOff, segmentOn, segmentOff,
                   digitCodes, common, limitsInit, maxNum, minNum,
                   digitLine, segmentLine, pc, step>>

\* refreshDisplay() is entered: byte step = 0
RefreshDisplay ==
    /\ Ready
    /\ pc' = "loop"
    /\ step' = 0
    /\ UNCHANGED <<call, resistors, numDigits, digitOn, digitOff, segmentOn, segmentOff,
                   digitCodes, common, ledOnTime, limitsInit, maxNum, minNum,
                   digitLine, segmentLine, last>>

\* refreshDisplay: step < REFRESH_STEPS, lightsOn(step); the delay follows
RefreshLightsOn ==
    /\ pc = "loop"
    /\ step < REFRESH_STEPS
    /\ \E q \in lightsOn(Pins, step) :
          /\ digitLine' = q.d
          /\ segmentLine' = q.s
    /\ pc' = "on"
    /\ UNCHANGED <<call, resistors, numDigits, digitOn, digitOff, segmentOn, segmentOff,
                   digitCodes, common, ledOnTime, limitsInit, maxNum, minNum,
                   step, last>>

\* refreshDisplay: the delay is over, lightsOff(step); step++
RefreshLightsOff ==
    /\ pc = "on"
    /\ \E q \in lightsOff(Pins, step) :
          /\ digitLine' = q.d
          /\ segmentLine' = q.s
    /\ step' = step + 1
    /\ pc' = "loop"
    /\ UNCHANGED <<call, resistors, numDigits, digitOn, digitOff, segmentOn, segmentOff,
                   digitCodes, common, ledOnTime, limitsInit, maxNum, minNum, last>>

\* refreshDisplay: step = REFRESH_STEPS, the call returns
RefreshReturn ==
    /\ pc = "loop"
    /\ step >= REFRESH_STEPS
    /\ pc' = "idle"
    /\ step' = 0
    /\ last' = Called("refreshDisplay", 0, 0)
    /\ UNCHANGED <<call, resistors, numDigits, digitOn, digitOff, segmentOn, segmentOff,
                   digitCodes, common, ledOnTime, limitsInit, maxNum, minNum,
                   digitLine, segmentLine>>

(***************************************************************************)
(* The driver: every operation, called one after the other by the main     *)
(* program.                                                                *)
(***************************************************************************)
DrvValues == {-1, 12}

DrvDecPlaces == {1}

RawSegs == {[i \in DigitIdx |-> 255], [i \in DigitIdx |-> 2 ^ i]}

DrvDigitCounts == 2..(S7_DIGITS + 1)

DrvConfigs == {0, 1}

\* The cursor is never assigned before updateDisplay reads it, so it may
\* start at any byte (0 when the driver object has static storage).  The
\* starts explored are the cursors inside or just past the tables, and 255.
InitialCursors == (0..(S7_SEGMENTS + MaxBeyond)) \cup {255}

Init ==
    /\ Constructed
    /\ resistors \in {"ON_DIGITS", "ON_SEGMENTS"}
    /\ common \in InitialCursors

Next ==
    \/ \E hw \in DrvConfigs, d \in DrvDigitCounts : Begin(hw, d)
    \/ \E v \in DrvValues, dp \in DrvDecPlaces : SetNumber(v, dp)
    \/ \E segs \in RawSegs : SetSegments(segs)
    \/ \E segs \in RawSegs : SetSegmentsPGM(segs)
    \/ UpdateDisplay
    \/ ClearDisplay
    \/ RefreshDisplay
    \/ RefreshLightsOn
    \/ RefreshLightsOff
    \/ RefreshReturn

Spec == Init /\ [][Next]_vars

\* The same driver as an object of static storage duration, whose fields
\* start zeroed: the cursor starts at 0.
InitStatic ==
    /\ Constructed
    /\ resistors \in {"ON_DIGITS", "ON_SEGMENTS"}
    /\ common = 0

SpecStatic == InitStatic /\ [][Next]_vars

(***************************************************************************)
(* The brightness controller on its own.                                   *)
(***************************************************************************)
\* setBrightness is explored on the percentages 100 - MaxPercent .. MaxPercent.
BrightnessInputs == (100 - MaxPercent)..MaxPercent

InitBright == Constructed /\ resistors = "ON_DIGITS" /\ common = 0

NextBright == \E b \in BrightnessInputs : SetBrightness(b)

SpecBright == InitBright /\ [][NextBright]_vars

(***************************************************************************)
(* The setNumber overloads for the integer types.  Each hands its argument *)
(* to setNewNum(long, byte): the argument is converted to long (32 bits,   *)
(* two's complement) at the call.                                          *)
(***************************************************************************)
\* An unsigned long argument is written as its two 16-bit halves,
\* hi * 65536 + lo.  Its conversion to long keeps the 32 bits: the values
\* from 2^31 on come out as the value minus 2^32.
LongOfUnsignedLong(u) ==
    IF u.hi >= 32768 THEN (u.hi - 65536) * 65536 + u.lo ELSE u.hi * 65536 + u.lo

\* int (16 bits), unsigned int, char and byte all fit a long: the
\* conversion keeps the value.
LongOfInt(x) == x

LongOfUnsignedInt(x) == x

LongOfChar(x) == x

LongOfByte(x) == x

\* setNumber(unsigned long numToShow, byte decPlaces)
SetNumberUnsignedLong(u, decPlaces) == SetNumber(LongOfUnsignedLong(u), decPlaces)

\* setNumber(int numToShow, byte decPlaces)
SetNumberInt(x, decPlaces) == SetNumber(LongOfInt(x), decPlaces)

\* setNumber(unsigned int numToShow, byte decPlaces)
SetNumberUnsignedInt(x, decPlaces) == SetNumber(LongOfUnsignedInt(x), decPlaces)

\* setNumber(char numToShow, byte decPlaces)
SetNumberChar(x, decPlaces) == SetNumber(LongOfChar(x), decPlaces)

\* setNumber(byte numToShow, byte decPlaces)
SetNumberByte(x, decPlaces) == SetNumber(LongOfByte(x), decPlaces)

\* The arguments explored, per type: the ends of the type's range and the
\* values around the ends of a display's range.
AroundLimits == UNION {{PowerOf10(k) - 1, PowerOf10(k)} : k \in 1..(S7_DIGITS + 1)}

LongArgs ==
    {-2147483647, 2147483647} \cup (-MaxSmall..MaxSmall) \cup AroundLimits
        \cup {-v : v \in AroundLimits}

UnsignedLongArgs ==
    {[hi |-> 0, lo |-> v] : v \in (0..MaxSmall) \cup AroundLimits \cup {65535}}
        \cup {[hi |-> 1, lo |-> 0], [hi |-> 32767, lo |-> 65535],
              [hi |-> 32768, lo |-> 1], [hi |-> 65535, lo |-> 65535 - MaxSmall],
              [hi |-> 65535, lo |-> 65535]}

IntArgs ==
    {-32768, 32767} \cup (-MaxSmall..MaxSmall)
        \cup {v \in AroundLimits : v <= 32767} \cup {-v : v \in {w \in AroundLimits : w <= 32767}}

UnsignedIntArgs == {65535} \cup (0..MaxSmall) \cup {v \in AroundLimits : v <= 65535}

CharArgs ==
    {-128, 127} \cup (-MaxSmall..MaxSmall)
        \cup {v \in AroundLimits : v <= 127} \cup {-v : v \in {w \in AroundLimits : w <= 127}}

ByteArgs == {255} \cup (0..MaxSmall) \cup {v \in AroundLimits : v <= 255}

\* The overloads are explored on a display of the largest digit count only,
\* so that the bounds findDigits applies are those of the digit count.
OverloadDigitCounts == {S7_DIGITS, S7_DIGITS + 1}

OverloadDecPlaces == {0, 1}

NextOverloads ==
    \/ \E hw \in HardwareConfigs, d \in OverloadDigitCounts : Begin(hw, d)
    \/ \E v \in LongArgs, dp \in OverloadDecPlaces : SetNumber(v, dp)
    \/ \E u \in UnsignedLongArgs, dp \in OverloadDecPlaces : SetNumberUnsignedLong(u, dp)
    \/ \E x \in IntArgs, dp \in OverloadDecPlaces : SetNumberInt(x, dp)
    \/ \E x \in UnsignedIntArgs, dp \in OverloadDecPlaces : SetNumberUnsignedInt(x, dp)
    \/ \E x \in CharArgs, dp \in OverloadDecPlaces : SetNumberChar(x, dp)
    \/ \E x \in ByteArgs, dp \in OverloadDecPlaces : SetNumberByte(x, dp)

SpecOverloads == InitEnc /\ [][NextOverloads]_vars

(***************************************************************************)
(* updateDisplay called from a timer interrupt.  The main program's        *)
(* setNumber and setSegments write digitCodes one byte at a time, and the  *)
(* interrupt may run updateDisplay between any two of these writes; the    *)
(* interrupt handler itself runs to its end.                               *)
(***************************************************************************)
\* setNumber(long, byte) up to the loop of setDigitCodes: findDigits has
\* filled digits[], and the bytes the loop will read from digitCodeMap are
\* fixed (g is what a read past the table gives).
SetNumberEnter(numToShow, decPlaces) ==
    /\ Ready
    /\ LET digits == findDigits(numToShow, decPlaces, numDigits, maxNum, minNum)
       IN  \E g \in (IF \E i \in 1..numDigits : digits[i] > DASH
                     THEN GarbageBytes ELSE {0}) :
              call' = Locals("setNumber", numToShow, decPlaces,
                             [i \in DigitIdx |->
                                 IF i < numDigits THEN CodeOf(digits[i + 1], g) ELSE 0],
                             numDigits - 1 - decPlaces)
    /\ pc' = "encode"
    /\ UNCHANGED <<resistors, numDigits, digitOn, digitOff, segmentOn, segmentOff,
                   digitCodes, common, ledOnTime, limitsInit, maxNum, minNum,
                   digitLine, segmentLine, step, last>>

\* setSegments(byte segs[]) up to its loop.
SetSegmentsEnter(segs) ==
    /\ Ready
    /\ call' = Locals("setSegments", 0, 0,
                      [i \in DigitIdx |-> IF i < numDigits THEN segs[i] ELSE 0], -1)
    /\ pc' = "encode"
    /\ UNCHANGED <<resistors, numDigits, digitOn, digitOff, segmentOn, segmentOff,
                   digitCodes, common, ledOnTime, limitsInit, maxNum, minNum,
                   digitLine, segmentLine, step, last>>

\* One pass of the loop up to its store: digitCodes[i] = <byte>.
EncodeStore ==
    /\ pc = "encode"
    /\ ~call.half
    /\ call.i < numDigits
    /\ digitCodes' = [digitCodes EXCEPT ![call.i] = call.codes[call.i]]
    /\ call' = IF call.i = call.point
               THEN [call EXCEPT !.half = TRUE]
               ELSE [call EXCEPT !.i = @ + 1]
    /\ UNCHANGED <<resistors, numDigits, digitOn, digitOff, segmentOn, segmentOff,
                   common, ledOnTime, limitsInit, maxNum, minNum,
                   digitLine, segmentLine, pc, step, last>>

\* The second store of the pass for the decimal point's position:
\* digitCodes[i] |= B10000000.
EncodePoint ==
    /\ pc = "encode"
    /\ call.half
    /\ digitCodes' = [digitCodes EXCEPT ![call.i] = WithPoint(@)]
    /\ call' = [call EXCEPT !.half = FALSE, !.i = @ + 1]
    /\ UNCHANGED <<resistors, numDigits, digitOn, digitOff, segmentOn, segmentOff,
                   common, ledOnTime, limitsInit, maxNum, minNum,
                   digitLine, segmentLine, pc, step, last>>

\* The loop is over and the call returns.
EncodeReturn ==
    /\ pc = "encode"
    /\ ~call.half
    /\ call.i >= numDigits
    /\ pc' = "idle"
    /\ last' = Called(call.op, call.v, call.dp)
    /\ call' = NoCall
    /\ UNCHANGED <<resistors, numDigits, digitOn, digitOff, segmentOn, segmentOff,
                   digitCodes, common, ledOnTime, limitsInit, maxNum, minNum,
                   digitLine, segmentLine, step>>

\* The timer interrupt: updateDisplay, between two calls of the main program
\* or inside its setNumber or setSegments.  last stays the main program's.
Tick ==
    /\ numDigits > 0
    /\ pc \in {"idle", "encode"}
    /\ common \in ExploredCursors
    /\ \E r \in updateDisplay(Pins, common) :
          /\ digitLine' = r.pins.d
          /\ segmentLine' = r.pins.s
          /\ common' = r.common
    /\ UNCHANGED <<call, resistors, numDigits, digitOn, digitOff, segmentOn, segmentOff,
                   digitCodes, ledOnTime, limitsInit, maxNum, minNum, pc, step, last>>

IsrConfigs == {0}

NextIsr ==
    \/ \E hw \in IsrConfigs, d \in DrvDigitCounts : Begin(hw, d)
    \/ \E v \in DrvValues, dp \in DrvDecPlaces : SetNumberEnter(v, dp)
    \/ \E segs \in RawSegs : SetSegmentsEnter(segs)
    \/ EncodeStore
    \/ EncodePoint
    \/ EncodeReturn
    \/ Tick

SpecIsr == InitStatic /\ [][NextIsr]_vars

(***************************************************************************)
(* setNumber(float, byte).  A float is a record [m, e] of value m * 2^e    *)
(* with |m| < 2^24 (IEEE 754 single precision, the float of the AVR        *)
(* toolchain; exponents stay far from the ends of the exponent range).     *)
(* Each float operation gives the exact result rounded to 24 significant   *)
(* bits, to nearest, ties to even.                                         *)
(***************************************************************************)
Float(m, e) == [m |-> m, e |-> e]

\* The float nearest to n * 2^e.
RoundFloat(n, e) ==
    LET mag == Abs(n)
        sgn == IF n < 0 THEN -1 ELSE 1
        k == CHOOSE j \in 0..8 : mag \div (2 ^ j) < 16777216
                                 /\ (j = 0 \/ mag \div (2 ^ (j - 1)) >= 16777216)
        q == mag \div (2 ^ k)
        r == mag % (2 ^ k)
        up == k > 0 /\ (2 * r > 2 ^ k \/ (2 * r = 2 ^ k /\ q % 2 = 1))
    IN  Float(sgn * (IF up THEN q + 1 ELSE q), e + k)

\* numToShow * powersOf10[decPlaces]: the long is converted to float (exact
\* for the ten powers of the table) and the product is rounded.
FloatTimesPowerOf10(x, decPlaces) == RoundFloat(x.m * PowerOf10(decPlaces), x.e)

\* x + y, rounded.
FloatAdd(x, y) ==
    LET e == Min(x.e, y.e)
    IN  RoundFloat(x.m * (2 ^ (x.e - e)) + y.m * (2 ^ (y.e - e)), e)

\* The conversion of a float to long drops the fraction.
LongOfFloat(x) ==
    IF x.e >= 0 THEN x.m * (2 ^ x.e)
    ELSE IF x.m >= 0 THEN x.m \div (2 ^ (-x.e)) ELSE -((-x.m) \div (2 ^ (-x.e)))

\* The float 'numToShow' holds at the call of setNewNum.
FloatRounded(x, decPlaces) ==
    LET scaled == FloatTimesPowerOf10(x, decPlaces)
    IN  FloatAdd(scaled, IF scaled.m >= 0 THEN Float(1, -1) ELSE Float(-1, -1))

\* setNumber(float numToShow, byte decPlaces)
SetNumberFloat(x, decPlaces) == SetNumber(LongOfFloat(FloatRounded(x, decPlaces)), decPlaces)

\* The floats explored: the multiples of 1/4 up to MaxSmall, the largest
\* floats below 1/2 and below 1 and their negatives, and an odd integer
\* between 2^23 and 2^24.
FloatArgs ==
    {Float(m, -2) : m \in (-4 * MaxSmall)..(4 * MaxSmall)}
        \cup {Float(16777215, -25), Float(-16777215, -25),
              Float(16777215, -24), Float(-16777215, -24),
              Float(8388609, 0), Float(-8388609, 0)}

FloatDecPlaces == {0, 1, 2}

FloatConfigs == {0}

NextFloat ==
    \/ \E hw \in FloatConfigs, d \in DigitCounts : Begin(hw, d)
    \/ \E x \in FloatArgs, dp \in FloatDecPlaces : SetNumberFloat(x, dp)

SpecFloat == InitEnc /\ [][NextFloat]_vars

(***************************************************************************)
(* The driver with setBrightness among its calls.                          *)
(***************************************************************************)
FrameBrightness == {50}

FrameConfigs == {0}

FrameValues == {12}

NextFrame ==
    \/ \E hw \in FrameConfigs, d \in DrvDigitCounts : Begin(hw, d)
    \/ \E v \in FrameValues, dp \in DrvDecPlaces : SetNumber(v, dp)
    \/ \E segs \in RawSegs : SetSegments(segs)
    \/ \E segs \in RawSegs : SetSegmentsPGM(segs)
    \/ UpdateDisplay
    \/ ClearDisplay
    \/ RefreshDisplay
    \/ RefreshLightsOn
    \/ RefreshLightsOff
    \/ RefreshReturn
    \/ \E b \in FrameBrightness : SetBrightness(b)

SpecFrame == InitStatic /\ [][NextFrame]_vars

(***************************************************************************)
(* Reading a display back: what the segment codes show.                    *)
(***************************************************************************)
\* Bits 0-6 of a segment code.
Segments7(code) == code % 128

\* The glyph a 7-segment pattern is in the glyph table, -1 if it is none.
GlyphShown(code) ==
    IF \E g \in 0..DASH : digitCodeMap[g + 1] = Segments7(code)
    THEN CHOOSE g \in 0..DASH : digitCodeMap[g + 1] = Segments7(code)
    ELSE -1

\* The glyphs of positions 0..n-1, as a sequence.
GlyphsShown(n) == [i \in 1..n |-> GlyphShown(digitCodes[i - 1])]

\* The number the glyphs from position k on spell after the digits read so
\* far (acc), blanks skipped; -1 if a glyph there is neither digit nor blank.
RECURSIVE ReadDigits(_, _, _)
ReadDigits(glyphs, k, acc) ==
    IF k > Len(glyphs) THEN acc
    ELSE IF glyphs[k] = BLANK THEN ReadDigits(glyphs, k + 1, acc)
         ELSE IF glyphs[k] \in 0..9 THEN ReadDigits(glyphs, k + 1, 10 * acc + glyphs[k])
              ELSE -1

\* The display read back as a number: [ok, val].
NumberShown(n) ==
    LET glyphs == GlyphsShown(n)
        neg == glyphs[1] = DASH
        mag == ReadDigits(glyphs, IF neg THEN 2 ELSE 1, 0)
        some == \E k \in (IF neg THEN 2 ELSE 1)..n : glyphs[k] \in 0..9
    IN  [ok |-> some /\ mag >= 0, val |-> IF neg THEN -mag ELSE mag]

\* v is within the range of an n-digit display.
InRange(v, n) == v <= PowerOf10(n) - 1 /\ v >= -(PowerOf10(n - 1) - 1)

\* The decimal digit of |v| that belongs at position i of n.
DigitAt(v, n, i) == (Abs(v) \div PowerOf10(n - 1 - i)) % 10

\* setNumber(v, dp) was the last call, with dp in [0, numDigits-1].
AfterSetNumber ==
    /\ last.op = "setNumber"
    /\ last.b <= numDigits - 1

(***************************************************************************)
(* The claims.                                                             *)
(***************************************************************************)
\* C1: after setNumber(v, dp) with v within the range of the digit count and
\* dp in [0, n-1], the segment codes read back through the glyph table
\* (DASH at position 0 the minus sign, blanks ignored) give exactly v.
C1_RoundTrip ==
    (AfterSetNumber /\ InRange(last.a, numDigits))
        => NumberShown(numDigits) = [ok |-> TRUE, val |-> last.a]

\* C2: after setNumber(v, dp) with v outside the range of the digit count,
\* every position shows DASH.
C2_OverflowAllDash ==
    (last.op = "setNumber" /\ ~InRange(last.a, numDigits))
        => \A i \in 0..(numDigits - 1) : Segments7(digitCodes[i]) = digitCodeMap[DASH + 1]

\* C3: once begin has run, the bounds findDigits applies are those of the
\* driver's current digit count.
C3_BoundsFollowDigitCount ==
    (numDigits > 0 /\ limitsInit)
        => /\ maxNum = PowerOf10(numDigits) - 1
           /\ minNum = -(PowerOf10(numDigits - 1) - 1)

\* C4: after setNumber(v, dp) with dp in [0, n-1], whatever v, the
\* decimal-point bit is set in exactly one code, the one at n-1-dp.
C4_OnePoint ==
    AfterSetNumber
        => \A i \in 0..(numDigits - 1) :
              (Bit(digitCodes[i], 7) = 1) <=> (i = numDigits - 1 - last.b)

\* C5: after setNumber(v, dp) with v in range and dp in [0, n-1], a digit
\* position is BLANK exactly if it lies before n-1-dp and every digit of v
\* up to it is 0; a negative value has DASH at position 0; every other zero
\* digit is shown as 0.
C5_Blanking ==
    (AfterSetNumber /\ InRange(last.a, numDigits))
        => LET v == last.a
               n == numDigits
               first == IF v < 0 THEN 1 ELSE 0
               leading(i) == /\ i < n - 1 - last.b
                             /\ \A j \in first..i : DigitAt(v, n, j) = 0
           IN  /\ v < 0 => GlyphShown(digitCodes[0]) = DASH
               /\ \A i \in first..(n - 1) :
                     /\ (GlyphShown(digitCodes[i]) = BLANK) <=> leading(i)
                     /\ (~leading(i) /\ DigitAt(v, n, i) = 0)
                            => GlyphShown(digitCodes[i]) = 0

\* The refresh units at their active level: segment lines under resistors
\* on digits, configured digit lines under resistors on segments.
ActiveUnits ==
    IF resistors = "ON_DIGITS"
    THEN {k \in SegmentIdx : segmentLine[k] = segmentOn}
    ELSE {i \in DigitIdx : i < numDigits /\ digitLine[i] = digitOn}

\* C6: in every state after begin at most one refresh unit is active.
C6_OneActiveUnit == numDigits > 0 => Cardinality(ActiveUnits) <= 1

\* Every configured digit line and every segment line is inactive.
AllLinesOff ==
    /\ \A i \in DigitIdx : i < numDigits => digitLine[i] = digitOff
    /\ \A k \in SegmentIdx : segmentLine[k] = segmentOff

\* C7: a clearDisplay step ends with every configured digit line and all 8
\* segment lines inactive, and with the segment codes and the cursor as
\* they were.
C7_ClearDisplay ==
    [][ClearDisplay => (AllLinesOff' /\ digitCodes' = digitCodes /\ common' = common)]_vars

\* C7 witness: clearDisplay has returned with the lines off, the cursor
\* advanced by earlier updateDisplay calls and a code with segments set.
C7_Witness ==
    /\ last.op = "clearDisplay"
    /\ AllLinesOff
    /\ common = 2
    /\ \E i \in DigitIdx : i < numDigits /\ digitCodes[i] = 255

\* C8: whenever updateDisplay can be called, the cursor is in [0, stepCount).
C8_CursorInRange == Ready => common \in 0..(REFRESH_STEPS - 1)

\* The on and off levels of the four hardware configurations.
LevelsOf(mode) ==
    IF mode = 0 THEN [digitOn |-> LOW, segmentOn |-> HIGH]
    ELSE IF mode = 1 THEN [digitOn |-> HIGH, segmentOn |-> LOW]
    ELSE IF mode = 2 THEN [digitOn |-> HIGH, segmentOn |-> HIGH]
    ELSE [digitOn |-> LOW, segmentOn |-> LOW]

\* C9: after begin(mode, d), before any other call, the digit count is min(d, S7_DIGITS), the on
\* levels are those of the mode and the off levels their complements, every
\* configured line is at its off level, and the codes show 0 with the point
\* on the last position and blanks before it.
C9_Begin ==
    (last.op = "begin" /\ pc = "idle")
        => /\ numDigits = Min(last.b, S7_DIGITS)
           /\ digitOn = LevelsOf(last.a).digitOn
           /\ segmentOn = LevelsOf(last.a).segmentOn
           /\ digitOff # digitOn /\ digitOff \in Levels
           /\ segmentOff # segmentOn /\ segmentOff \in Levels
           /\ AllLinesOff
           /\ \A i \in 0..(numDigits - 1) :
                 digitCodes[i] = IF i = numDigits - 1 THEN 128 + 63 ELSE 0

\* C9 witness: begin with a digit count above the maximum, in the fourth
\* mode, on a driver that findDigits had already served with fewer digits.
C9_Witness ==
    /\ last = Called("begin", 3, S7_DIGITS + 1)
    /\ numDigits = S7_DIGITS
    /\ maxNum = 9

\* C10: after setBrightness(percent) the on-time is the linear map of the
\* clamped percentage onto [1, 2000], rounded down: within [1, 2000], 1 for
\* percent <= 0, 2000 for percent >= 100, and no smaller than the on-time
\* of any smaller percentage.
C10_Brightness ==
    last.op = "setBrightness"
        => LET percent == last.a
               c == IF percent < 0 THEN 0 ELSE IF percent > 100 THEN 100 ELSE percent
           IN  /\ ledOnTime \in 1..2000
               /\ percent <= 0 => ledOnTime = 1
               /\ percent >= 100 => ledOnTime = 2000
               /\ 100 * (ledOnTime - 1) <= 1999 * c
               /\ 1999 * c < 100 * ledOnTime
               /\ \A q \in BrightnessInputs : q <= percent => OnTimeOf(q) <= ledOnTime

\* C10 witness: a percentage strictly inside the range was set, and the map
\* rounded down.
C10_Witness ==
    /\ last = Called("setBrightness", 33, 0)
    /\ ledOnTime = 660

\* ------------------------------------------------------------------------
\* What the lines light.

\* The LEDs that are lit: digit d, segment s, with both lines active.
LitLEDs ==
    {led \in DigitIdx \X SegmentIdx :
        /\ led[1] < numDigits
        /\ digitLine[led[1]] = digitOn
        /\ segmentLine[led[2]] = segmentOn}

\* The LEDs a refresh step is to light according to the segment codes.
StepLEDs(c) ==
    IF resistors = "ON_DIGITS"
    THEN {led \in DigitIdx \X SegmentIdx :
             led[1] < numDigits /\ led[2] = c /\ Bit(digitCodes[led[1]], c) = 1}
    ELSE {led \in DigitIdx \X SegmentIdx :
             led[1] = c /\ c < numDigits /\ Bit(digitCodes[led[1]], led[2]) = 1}

\* The lines of the display that are at their active level.
ActiveLines ==
    [d |-> {i \in DigitIdx : i < numDigits /\ digitLine[i] = digitOn},
     s |-> {k \in SegmentIdx : segmentLine[k] = segmentOn}]

\* The lines a refresh step is to activate according to the segment codes.
StepLines(c) ==
    IF resistors = "ON_DIGITS"
    THEN [d |-> {i \in DigitIdx : i < numDigits /\ Bit(digitCodes[i], c) = 1},
          s |-> {c}]
    ELSE [d |-> {c},
          s |-> {k \in SegmentIdx : c < numDigits /\ Bit(digitCodes[c], k) = 1}]

\* Every line the driver can drive is inactive, the digit lines of an
\* earlier, larger digit count included.
AllWiredOff ==
    /\ \A i \in DigitIdx : digitLine[i] = digitOff
    /\ \A k \in SegmentIdx : segmentLine[k] = segmentOff

InRangeCursor(c) == c \in 0..(REFRESH_STEPS - 1)

\* C11: in a cycle that starts with all lines inactive and runs with the
\* codes held fixed, the LEDs lit at any instant are exactly the LEDs of the
\* step being shown whose code bit is set, under either strategy; and the
\* cycle shows valid steps only, so that over one refreshDisplay or over
\* stepCount updateDisplay calls the lit LEDs are those whose bit is set.
\* Stated step by step: lightsOn of refreshDisplay from all lines inactive
\* lights the LEDs of its step, lightsOff from there leaves all lines
\* inactive, and an updateDisplay from all lines inactive, or from the step
\* lit by the updateDisplay before it, lights a valid step and its LEDs.
C11_SameLEDs ==
    [][/\ (RefreshLightsOn /\ AllWiredOff) =>
              (LitLEDs' = StepLEDs(step) /\ ActiveLines' = StepLines(step))
       /\ (RefreshLightsOff /\ ActiveLines = StepLines(step)) => AllLinesOff'
       /\ (UpdateDisplay /\ (AllWiredOff \/ (/\ last.op = "updateDisplay"
                                            /\ InRangeCursor(common)
                                            /\ ActiveLines = StepLines(common))))
              => (/\ InRangeCursor(common')
                  /\ LitLEDs' = StepLEDs(common')
                  /\ ActiveLines' = StepLines(common'))]_vars

\* Every position shows DASH.
AllDash ==
    \A i \in 0..(numDigits - 1) : Segments7(digitCodes[i]) = digitCodeMap[DASH + 1]

\* The largest number an n-digit display shows.
MaxValue(n) == PowerOf10(n) - 1

\* The unsigned long u, given by its halves, is greater than m (m >= 0).
UnsignedLongAbove(u, m) ==
    u.hi > m \div 65536 \/ (u.hi = m \div 65536 /\ u.lo > m % 65536)

\* C12: for every integer overload of setNumber, an argument greater than
\* 10^digitCount - 1 leaves the display all DASH; an unsigned long above
\* 2^31 - 1 is such an argument.
C12_OverloadsOverflow ==
    [][\A dp \in OverloadDecPlaces :
          /\ \A v \in LongArgs :
                (v > MaxValue(numDigits) /\ SetNumber(v, dp)) => AllDash'
          /\ \A u \in UnsignedLongArgs :
                (UnsignedLongAbove(u, MaxValue(numDigits)) /\ SetNumberUnsignedLong(u, dp))
                    => AllDash'
          /\ \A x \in IntArgs :
                (x > MaxValue(numDigits) /\ SetNumberInt(x, dp)) => AllDash'
          /\ \A x \in UnsignedIntArgs :
                (x > MaxValue(numDigits) /\ SetNumberUnsignedInt(x, dp)) => AllDash'
          /\ \A x \in CharArgs :
                (x > MaxValue(numDigits) /\ SetNumberChar(x, dp)) => AllDash'
          /\ \A x \in ByteArgs :
                (x > MaxValue(numDigits) /\ SetNumberByte(x, dp)) => AllDash']_vars

\* The codes are those the last encoder call was to write, all of them.
NewCodesOnly ==
    /\ last.op = "setNumber" =>
           digitCodes \in setNewNum(digitCodes, last.a, last.b, numDigits, maxNum, minNum)
    /\ last.op = "setSegments" =>
           \E segs \in RawSegs : \A i \in 0..(numDigits - 1) : digitCodes[i] = segs[i]

\* C13: with updateDisplay ticks falling anywhere between the writes of a
\* setNumber or setSegments call, every tick leaves the cursor in range, and
\* a tick that starts after the call has returned lights its step from the
\* new codes only: the active lines are those of the step under codes that
\* are all the call's.
C13_Interleaving ==
    [][/\ (Tick /\ pc = "encode") => InRangeCursor(common')
       /\ (Tick /\ pc = "idle" /\ last.op \in {"setNumber", "setSegments"})
              => (/\ InRangeCursor(common')
                  /\ NewCodesOnly
                  /\ ActiveLines' = StepLines(common'))]_vars

\* x * 10^p is a float: the product needs no rounding.
ExactProduct(x, p) ==
    LET n == x.m * PowerOf10(p)
        scaled == RoundFloat(n, x.e)
    IN  scaled.m * (2 ^ (scaled.e - x.e)) = n

\* x * 10^p rounded to an integer, halves away from zero, in exact
\* arithmetic: trunc(x * 10^p + 0.5) for x >= 0 and trunc(x * 10^p - 0.5)
\* for x < 0.
HalfAwayFromZero(x, p) ==
    LET n == x.m * PowerOf10(p)
    IN  IF x.e >= 0 THEN n * (2 ^ x.e)
        ELSE LET d == 2 ^ (-x.e)
             IN  IF n >= 0 THEN (2 * n + d) \div (2 * d)
                 ELSE -((2 * (-n) + d) \div (2 * d))

\* C14: setNumber(x, p) for a float x with x * 10^p exactly representable
\* leaves the codes that setNumber(r, p) of the integer path leaves, r being
\* x * 10^p rounded half away from zero.
C14_FloatRounding ==
    [][\A x \in FloatArgs, p \in FloatDecPlaces :
          (ExactProduct(x, p) /\ SetNumberFloat(x, p))
              => digitCodes' \in setNewNum(digitCodes, HalfAwayFromZero(x, p), p,
                                           numDigits, maxNum, minNum)]_vars

\* A step that is one whole call of the main program: it starts and ends
\* outside refreshDisplay, and last' names the call.
WholeCall(ops) == pc = "idle" /\ pc' = "idle" /\ last'.op \in ops

\* C15: an updateDisplay call made with the cursor in range leaves active
\* exactly the lines of the new cursor step under the codes as they are at
\* the call (which it leaves as they are): no line of the step lit before
\* stays active, whatever was written to the codes since.
C15_UpdateDisplay ==
    [][(WholeCall({"updateDisplay"}) /\ InRangeCursor(common))
          => (/\ digitCodes' = digitCodes
              /\ InRangeCursor(common')
              /\ ActiveLines' = StepLines(common'))]_vars

\* updateDisplay has lit step 1 of a display under resistors on segments
\* whose digit 1 has all segments set, after it had lit step 0.
C15_Witness ==
    /\ last.op = "updateDisplay"
    /\ pc = "idle"
    /\ resistors = "ON_SEGMENTS"
    /\ common = 1
    /\ numDigits > 1
    /\ digitCodes[1] = 255
    /\ ActiveLines = [d |-> {1}, s |-> SegmentIdx]

\* With the lines as in p, the line of refresh step c (a segment line under
\* resistors on digits, a digit line under resistors on segments) is active.
UnitActive(p, c) ==
    IF resistors = "ON_DIGITS" THEN p.s[c] = segmentOn ELSE p.d[c] = digitOn

\* C16: refreshDisplay starts at step 0; each lightsOn of its loop turns on
\* the step the loop is at, a step below stepCount; each lightsOff turns that
\* step off, so that no LED is lit, and moves the loop to the next step; the
\* call returns after step stepCount - 1.  From its entry to its return the
\* cursor and the segment codes stay as they are.
C16_RefreshOrder ==
    [][/\ RefreshDisplay => (step' = 0 /\ Pins' = Pins)
       /\ RefreshLightsOn =>
              (/\ step \in 0..(REFRESH_STEPS - 1)
               /\ step' = step
               /\ UnitActive(Pins', step)
               /\ StepLines(step).d \subseteq ActiveLines'.d
               /\ StepLines(step).s \subseteq ActiveLines'.s)
       /\ RefreshLightsOff =>
              (/\ step' = step + 1
               /\ ~UnitActive(Pins', step)
               /\ LitLEDs' = {})
       /\ RefreshReturn => (step = REFRESH_STEPS /\ Pins' = Pins)
       /\ (pc # "idle" \/ pc' # "idle") => (common' = common /\ digitCodes' = digitCodes)]_vars

\* refreshDisplay is showing its last step, and the step lights LEDs.
C16_Witness ==
    /\ pc = "on"
    /\ numDigits > 0
    /\ step = REFRESH_STEPS - 1
    /\ UnitActive(Pins, step)
    /\ LitLEDs = StepLEDs(step)
    /\ LitLEDs # {}

\* C17: every updateDisplay call lights a step of the display, and the step
\* after the one the updateDisplay call before it lit, cyclically; so any
\* stepCount calls in a row light each step once.
C17_EveryStepLit ==
    [][UpdateDisplay
          => (/\ InRangeCursor(common')
              /\ ActiveLines' = StepLines(common')
              /\ last.op = "updateDisplay" => common' = (common + 1) % REFRESH_STEPS)]_vars

\* C18: when refreshDisplay has returned, every digit line and every segment
\* line of the display is inactive.
C18_RefreshLeavesOff ==
    (last.op = "refreshDisplay" /\ pc = "idle" /\ numDigits >= 1) => AllLinesOff

\* refreshDisplay has returned on a display under resistors on segments
\* whose codes have all segments set, with the cursor at step 1.
C18_Witness ==
    /\ last.op = "refreshDisplay"
    /\ pc = "idle"
    /\ resistors = "ON_SEGMENTS"
    /\ numDigits > 1
    /\ common = 1
    /\ \A i \in 0..(numDigits - 1) : digitCodes[i] = 255
    /\ AllLinesOff

\* C19: a step that changes the segment codes is a call of begin, setNumber,
\* setSegments or setSegmentsPGM, so refreshDisplay, updateDisplay,
\* clearDisplay and setBrightness leave them; setSegments and setSegmentsPGM
\* store segs[i] at every position i below the digit count, as it is; and
\* setBrightness changes the on-time only: cursor, lines and what
\* updateDisplay may do next are as before.
C19_Frame ==
    [][/\ digitCodes' # digitCodes
              => WholeCall({"begin", "setNumber", "setSegments", "setSegmentsPGM"})
       /\ \A segs \in RawSegs :
              (SetSegments(segs) \/ SetSegmentsPGM(segs))
                  => \A i \in 0..(numDigits - 1) : digitCodes'[i] = segs[i]
       /\ WholeCall({"setBrightness"})
              => (/\ UNCHANGED <<call, resistors, numDigits, digitOn, digitOff, segmentOn,
                                 segmentOff, digitCodes, common, limitsInit, maxNum,
                                 minNum, digitLine, segmentLine, pc, step>>
                  /\ updateDisplay(Pins', common') = updateDisplay(Pins, common))]_vars

\* setBrightness has returned on a display that shows step 1 of codes with
\* all segments set, and the on-time is no longer the constructor's.
C19_Witness ==
    /\ last.op = "setBrightness"
    /\ pc = "idle"
    /\ ledOnTime # 2000
    /\ numDigits > 1
    /\ common = 1
    /\ digitCodes[1] = 255
    /\ LitLEDs # {}

====
